---- MODULE Spec2Model ----
(***************************************************************************)
(* Model of backend/src/main.rs: a Rocket HTTP service with four routes    *)
(* over one "users" table, all sharing one tokio_postgres Client.          *)
(*                                                                         *)
(* The store is the table behind the statement of main.rs:88-97 (id SERIAL *)
(* PRIMARY KEY, name, email).  Every statement is its own autocommit       *)
(* transaction, so a handler with two statements (add_user, update_user)   *)
(* is two steps, and other requests may run between them.  The order of    *)
(* the rows of a SELECT without ORDER BY is not fixed by the store, so a   *)
(* Vec<User> is modelled by the set of its elements.                       *)
(***************************************************************************)
EXTENDS Integers, Sequences, FiniteSets, TLC

\* ---------------------------------------------------------------- bounds
\* Largest value the SERIAL sequence hands out in the model.
MaxSeq == 2
\* The request tasks.  Rocket runs one task per request in flight; two are
\* what it takes for a statement of one request to land between the two
\* statements of another.
Tasks == {1, 2}
\* Path ids a client may send: 0 never names a row, the others may or may
\* not name one.
PathIds == 0..MaxSeq

\* ---------------------------------------------------------------- data
\* Option<i32>: None is <<>>, Some(n) is <<n>>.
None == <<>>
Some(n) == <<n>>

InjectionName == "'; DROP TABLE users; --"

\* struct User { id: Option<i32>, name: String, email: String }
User(id, name, email) == [id |-> id, name |-> name, email |-> email]

\* Request bodies a client may send; the second carries an id.
Bodies ==
    { User(None, "Ann", "ann@x.com"),
      User(Some(1), InjectionName, "annb@x.com") }

NoBody == User(None, "", "")

\* The statement texts of the program.
CREATE_SQL == "CREATE TABLE IF NOT EXISTS users (id SERIAL PRIMARY KEY, name TEXT NOT NULL, email TEXT NOT NULL)"
INSERT_SQL == "INSERT INTO users (name, email) VALUES ($1, $2)"
SELECT_SQL == "SELECT id, name, email FROM users"
UPDATE_SQL == "UPDATE users SET name = $1, email = $2 WHERE id = $3"
DELETE_SQL == "DELETE FROM users WHERE id = $1"
\* Not a statement of the program: what the server would run if a value were
\* read as statement text.
DROP_SQL == "DROP TABLE users"

\* Texts of the errors the driver reports.
DbErrorText == "db error"
ClosedErrorText == "connection closed"

\* ---------------------------------------------------------------- state
VARIABLES
    phase,      \* position of rocket(): "start", "connected", "created",
                \* "serving", "aborted" (a panic of expect), "stopped"
    client,     \* TRUE when connect returned the Client that is managed
    connAlive,  \* TRUE while the spawned connection future is running
    db,         \* the store: [exists, rows, seq]
    task,       \* per request task: where its handler stands
    resp,       \* the response most recently sent, with the request it answers
    lastStmt    \* the statement most recently run on the connection:
                \* [sql, err, by], err = "" when it succeeded, by = 0 for rocket()

vars == <<phase, client, connAlive, db, task, resp, lastStmt>>

Idle == [pc |-> "idle", kind |-> "none", id |-> 0, body |-> NoBody]
NoResp == [task |-> 0, kind |-> "none", id |-> 0, status |-> 0, users |-> {}, text |-> ""]
NoStmt == [sql |-> "", err |-> "", by |-> 0]

Ids(rows) == { r.id : r \in rows }

\* ---------------------------------------------------------------- store
Cmd(op, id, name, email) == [op |-> op, id |-> id, name |-> name, email |-> email]

\* What the server does with a statement whose values were spliced into
\* its text: a value that closes the literal makes a second statement.
BindInterpolated(sql, params) ==
    LET one ==
            CASE sql = INSERT_SQL -> <<Cmd("insert", 0, params[1], params[2])>>
              [] sql = UPDATE_SQL -> <<Cmd("update", params[3], params[1], params[2])>>
              [] sql = DELETE_SQL -> <<Cmd("delete", params[1], "", "")>>
              [] sql = CREATE_SQL -> <<Cmd("create", 0, "", "")>>
              [] OTHER -> <<Cmd("select", 0, "", "")>>
    IN  IF sql \in {INSERT_SQL, UPDATE_SQL} /\ params[1] = InjectionName
        THEN one \o <<Cmd("drop", 0, "", "")>>
        ELSE one

\* client.execute(query, params) / client.query(query, params): the text is
\* prepared as it stands and the values travel as bound parameters, so the
\* statement the server runs is fixed by the text alone.
Bind(sql, params) ==
    CASE sql = INSERT_SQL -> <<Cmd("insert", 0, params[1], params[2])>>
      [] sql = UPDATE_SQL -> <<Cmd("update", params[3], params[1], params[2])>>
      [] sql = DELETE_SQL -> <<Cmd("delete", params[1], "", "")>>
      [] sql = CREATE_SQL -> <<Cmd("create", 0, "", "")>>
      [] OTHER -> <<Cmd("select", 0, "", "")>>

\* The text of the statement a command stands for.
SqlOf(c) ==
    CASE c.op = "insert" -> INSERT_SQL
      [] c.op = "update" -> UPDATE_SQL
      [] c.op = "delete" -> DELETE_SQL
      [] c.op = "create" -> CREATE_SQL
      [] c.op = "drop" -> DROP_SQL
      [] OTHER -> SELECT_SQL

\* A sequence that hands out the number of rows plus one.
NextIdByCount(d) == Cardinality(d.rows) + 1

\* nextval of the sequence behind "id SERIAL": never hands a value out twice.
NextId(d) == d.seq + 1

\* CREATE TABLE IF NOT EXISTS: nothing happens to a table that is there.
ApplyCreate(d) ==
    IF d.exists THEN d ELSE [exists |-> TRUE, rows |-> {}, seq |-> 0]

\* INSERT INTO users (name, email) VALUES ($1, $2): the id is the default.
ApplyInsert(c, d) ==
    [d EXCEPT !.rows = @ \cup {[id |-> NextId(d), name |-> c.name, email |-> c.email]},
              !.seq = NextId(d)]

\* An UPDATE that lost its WHERE clause.
ApplyUpdateAll(c, d) ==
    [d EXCEPT !.rows = { [id |-> r.id, name |-> c.name, email |-> c.email] : r \in @ }]

\* UPDATE users SET name = $1, email = $2 WHERE id = $3
ApplyUpdate(c, d) ==
    [d EXCEPT !.rows = { IF r.id = c.id
                         THEN [id |-> r.id, name |-> c.name, email |-> c.email]
                         ELSE r : r \in @ }]

\* A DELETE that lost its WHERE clause.
ApplyDeleteAll(c, d) ==
    [d EXCEPT !.rows = {}]

\* DELETE FROM users WHERE id = $1
ApplyDelete(c, d) ==
    [d EXCEPT !.rows = { r \in @ : r.id # c.id }]

\* The effect of one command on the store.
Apply(c, d) ==
    CASE c.op = "create" -> ApplyCreate(d)
      [] c.op = "drop" -> [exists |-> FALSE, rows |-> {}, seq |-> 0]
      [] c.op = "insert" /\ d.exists -> ApplyInsert(c, d)
      [] c.op = "update" /\ d.exists -> ApplyUpdate(c, d)
      [] c.op = "delete" /\ d.exists -> ApplyDelete(c, d)
      [] OTHER -> d

RECURSIVE Run(_, _)
Run(cmds, d) ==
    IF cmds = <<>> THEN d ELSE Run(Tail(cmds), Apply(Head(cmds), d))

\* The store and the connection log after a statement that succeeded.
Executed(t, sql, params) ==
    LET cmds == Bind(sql, params)
    IN  /\ db' = Run(cmds, db)
        /\ lastStmt' = [sql |-> SqlOf(cmds[Len(cmds)]), err |-> "", by |-> t]

\* A statement that failed: its transaction has no effect.
Failed(t, sql, e) ==
    /\ db' = db
    /\ lastStmt' = [sql |-> sql, err |-> e, by |-> t]

\* The errors a statement can fail with now.
Errors == IF connAlive THEN {DbErrorText} ELSE {ClosedErrorText}

\* ---------------------------------------------------------------- responses
\* .map(|row| User { id: Some(row.get(0)), name: row.get(1), email: row.get(2) })
get_users_from_db(rows) == { User(Some(r.id), r.name, r.email) : r \in rows }

\* An error mapping that hides the driver's text.
map_err_generic(t, kind, id, e) ==
    [task |-> t, kind |-> kind, id |-> id, status |-> 500, users |-> {},
     text |-> "Internal Server Error"]

\* .map_err(|e| Custom(Status::InternalServerError, e.to_string()))
map_err(t, kind, id, e) ==
    [task |-> t, kind |-> kind, id |-> id, status |-> 500, users |-> {}, text |-> e]

Ok200(t, kind, id, rows) ==
    [task |-> t, kind |-> kind, id |-> id, status |-> 200,
     users |-> get_users_from_db(rows), text |-> ""]

Ok204(t, kind, id) ==
    [task |-> t, kind |-> kind, id |-> id, status |-> 204, users |-> {}, text |-> ""]

\* ---------------------------------------------------------------- startup
Init ==
    /\ phase = "start"
    /\ client = FALSE
    /\ connAlive = FALSE
    /\ db \in { [exists |-> FALSE, rows |-> {}, seq |-> 0] }
    /\ task = [t \in Tasks |-> Idle]
    /\ resp = NoResp
    /\ lastStmt = NoStmt

\* tokio_postgres::connect(...).await succeeded; the connection is spawned.
Connect ==
    /\ phase = "start"
    /\ phase' = "connected"
    /\ client' = TRUE
    /\ connAlive' = TRUE
    /\ UNCHANGED <<db, task, resp, lastStmt>>

\* .expect("Failed to connect to Postgres") panics.
ConnectFail ==
    /\ phase = "start"
    /\ phase' = "aborted"
    /\ UNCHANGED <<client, connAlive, db, task, resp, lastStmt>>

\* The spawned connection future ends; the process only prints the error.
ConnectionLost ==
    /\ connAlive
    /\ connAlive' = FALSE
    /\ UNCHANGED <<phase, client, db, task, resp, lastStmt>>

\* CREATE TABLE IF NOT EXISTS succeeded.
CreateTable ==
    /\ phase = "connected"
    /\ connAlive
    /\ Executed(0, CREATE_SQL, <<>>)
    /\ phase' = "created"
    /\ UNCHANGED <<client, connAlive, task, resp>>

\* A start that goes on after a failed CREATE TABLE.
CreateTableFailIgnored ==
    /\ phase = "connected"
    /\ \E e \in Errors : Failed(0, CREATE_SQL, e)
    /\ phase' = "created"
    /\ UNCHANGED <<client, connAlive, task, resp>>

\* .expect("Failed to create table") panics.
CreateTableFail ==
    /\ phase = "connected"
    /\ \E e \in Errors : Failed(0, CREATE_SQL, e)
    /\ phase' = "aborted"
    /\ UNCHANGED <<client, connAlive, task, resp>>

\* The CORS fairing is built and the routes are mounted on the managed client.
Mount ==
    /\ phase = "created"
    /\ phase' = "serving"
    /\ UNCHANGED <<client, connAlive, db, task, resp, lastStmt>>

\* The process is terminated from outside; the store keeps its content.
Terminate ==
    /\ phase = "serving"
    /\ phase' = "stopped"
    /\ client' = FALSE
    /\ connAlive' = FALSE
    /\ task' = [t \in Tasks |-> Idle]
    /\ resp' = NoResp
    /\ lastStmt' = NoStmt
    /\ UNCHANGED db

\* The program is started again.
Launch ==
    /\ phase \in {"stopped", "aborted"}
    /\ phase' = "start"
    /\ client' = FALSE
    /\ connAlive' = FALSE
    /\ lastStmt' = NoStmt
    /\ UNCHANGED <<db, task, resp>>

\* ---------------------------------------------------------------- handlers
\* An add_user whose INSERT and listing are one transaction: one step that
\* commits the row and answers.
AddUserInsertAtomic(t, b) ==
    /\ phase = "serving" /\ task[t].pc = "idle"
    /\ connAlive /\ db.seq < MaxSeq
    /\ db' = Run(Bind(INSERT_SQL, <<b.name, b.email>>), db)
    /\ lastStmt' = [sql |-> SELECT_SQL, err |-> "", by |-> t]
    /\ resp' = [task |-> t, kind |-> "POST", id |-> db'.seq, status |-> 200,
                users |-> { User(Some(r.id), r.name, r.email) : r \in db'.rows },
                text |-> ""]
    /\ UNCHANGED <<phase, client, connAlive, task>>

\* An add_user with its two parameters in the wrong order.
AddUserInsertSwapped(t, b) ==
    /\ phase = "serving" /\ task[t].pc = "idle"
    /\ connAlive /\ db.seq < MaxSeq
    /\ Executed(t, INSERT_SQL, <<b.email, b.name>>)
    /\ task' = [task EXCEPT ![t] = [pc |-> "wrote", kind |-> "POST", id |-> NextId(db), body |-> b]]
    /\ UNCHANGED <<phase, client, connAlive, resp>>

\* add_user up to its first await: the INSERT succeeded.  The id the store
\* assigned is kept with the task for the properties; the handler never
\* sees it.
AddUserInsert(t, b) ==
    /\ phase = "serving" /\ task[t].pc = "idle"
    /\ connAlive /\ db.seq < MaxSeq
    /\ Executed(t, INSERT_SQL, <<b.name, b.email>>)
    /\ task' = [task EXCEPT ![t] = [pc |-> "wrote", kind |-> "POST", id |-> NextId(db), body |-> b]]
    /\ UNCHANGED <<phase, client, connAlive, resp>>

\* add_user: the INSERT failed, `?` returns the error.
AddUserInsertFail(t, b) ==
    /\ phase = "serving" /\ task[t].pc = "idle"
    /\ \E e \in Errors :
        /\ Failed(t, INSERT_SQL, e)
        /\ resp' = map_err(t, "POST", 0, e)
    /\ UNCHANGED <<phase, client, connAlive, task>>

\* update_user up to its first await: the UPDATE succeeded.
UpdateUserUpdate(t, id, b) ==
    /\ phase = "serving" /\ task[t].pc = "idle"
    /\ connAlive
    /\ Executed(t, UPDATE_SQL, <<b.name, b.email, id>>)
    /\ task' = [task EXCEPT ![t] = [pc |-> "wrote", kind |-> "PUT", id |-> id, body |-> b]]
    /\ UNCHANGED <<phase, client, connAlive, resp>>

\* update_user: the UPDATE failed.
UpdateUserUpdateFail(t, id, b) ==
    /\ phase = "serving" /\ task[t].pc = "idle"
    /\ \E e \in Errors :
        /\ Failed(t, UPDATE_SQL, e)
        /\ resp' = map_err(t, "PUT", id, e)
    /\ UNCHANGED <<phase, client, connAlive, task>>

\* The tail of add_user and update_user: get_users(conn).await succeeded.
ListAfterWrite(t) ==
    /\ phase = "serving" /\ task[t].pc = "wrote"
    /\ connAlive
    /\ Executed(t, SELECT_SQL, <<>>)
    /\ resp' = Ok200(t, task[t].kind, task[t].id, db.rows)
    /\ task' = [task EXCEPT ![t] = Idle]
    /\ UNCHANGED <<phase, client, connAlive>>

\* A failed listing that takes the row of its POST back.
ListAfterWriteFailRollback(t) ==
    /\ phase = "serving" /\ task[t].pc = "wrote"
    /\ \E e \in Errors :
        /\ lastStmt' = [sql |-> SELECT_SQL, err |-> e, by |-> t]
        /\ resp' = map_err(t, task[t].kind, task[t].id, e)
    /\ db' = IF task[t].kind = "POST"
             THEN [db EXCEPT !.rows = { r \in @ : r.id # task[t].id }]
             ELSE db
    /\ task' = [task EXCEPT ![t] = Idle]
    /\ UNCHANGED <<phase, client, connAlive>>

\* The tail of add_user and update_user: the SELECT failed.
ListAfterWriteFail(t) ==
    /\ phase = "serving" /\ task[t].pc = "wrote"
    /\ \E e \in Errors :
        /\ Failed(t, SELECT_SQL, e)
        /\ resp' = map_err(t, task[t].kind, task[t].id, e)
    /\ task' = [task EXCEPT ![t] = Idle]
    /\ UNCHANGED <<phase, client, connAlive>>

\* get_users: the SELECT succeeded.
GetUsers(t) ==
    /\ phase = "serving" /\ task[t].pc = "idle"
    /\ connAlive
    /\ Executed(t, SELECT_SQL, <<>>)
    /\ resp' = Ok200(t, "GET", 0, db.rows)
    /\ UNCHANGED <<phase, client, connAlive, task>>

\* get_users: the SELECT failed.
GetUsersFail(t) ==
    /\ phase = "serving" /\ task[t].pc = "idle"
    /\ \E e \in Errors :
        /\ Failed(t, SELECT_SQL, e)
        /\ resp' = map_err(t, "GET", 0, e)
    /\ UNCHANGED <<phase, client, connAlive, task>>

\* A delete_user that answers 404 when no row matched.
DeleteUserChecked(t, id) ==
    /\ phase = "serving" /\ task[t].pc = "idle"
    /\ connAlive
    /\ Executed(t, DELETE_SQL, <<id>>)
    /\ resp' = IF id \in Ids(db.rows)
               THEN Ok204(t, "DELETE", id)
               ELSE [task |-> t, kind |-> "DELETE", id |-> id, status |-> 404,
                     users |-> {}, text |-> ""]
    /\ UNCHANGED <<phase, client, connAlive, task>>

\* delete_user: the DELETE succeeded, Ok(Status::NoContent).
DeleteUser(t, id) ==
    /\ phase = "serving" /\ task[t].pc = "idle"
    /\ connAlive
    /\ Executed(t, DELETE_SQL, <<id>>)
    /\ resp' = Ok204(t, "DELETE", id)
    /\ UNCHANGED <<phase, client, connAlive, task>>

\* delete_user: the DELETE failed.
DeleteUserFail(t, id) ==
    /\ phase = "serving" /\ task[t].pc = "idle"
    /\ \E e \in Errors :
        /\ Failed(t, DELETE_SQL, e)
        /\ resp' = map_err(t, "DELETE", id, e)
    /\ UNCHANGED <<phase, client, connAlive, task>>

Next ==
    \/ Connect
    \/ ConnectFail
    \/ ConnectionLost
    \/ CreateTable
    \/ CreateTableFail
    \/ Mount
    \/ Terminate
    \/ Launch
    \/ \E t \in Tasks, b \in Bodies : AddUserInsert(t, b)
    \/ \E t \in Tasks, b \in Bodies : AddUserInsertFail(t, b)
    \/ \E t \in Tasks, id \in PathIds, b \in Bodies : UpdateUserUpdate(t, id, b)
    \/ \E t \in Tasks, id \in PathIds, b \in Bodies : UpdateUserUpdateFail(t, id, b)
    \/ \E t \in Tasks : ListAfterWrite(t)
    \/ \E t \in Tasks : ListAfterWriteFail(t)
    \/ \E t \in Tasks : GetUsers(t)
    \/ \E t \in Tasks : GetUsersFail(t)
    \/ \E t \in Tasks, id \in PathIds : DeleteUser(t, id)
    \/ \E t \in Tasks, id \in PathIds : DeleteUserFail(t, id)

Spec == Init /\ [][Next]_vars

\* ---------------------------------------------------------------- properties
TypeOK ==
    /\ phase \in {"start", "connected", "created", "serving", "aborted", "stopped"}
    /\ client \in BOOLEAN /\ connAlive \in BOOLEAN
    /\ db.exists \in BOOLEAN /\ db.seq \in 0..MaxSeq
    /\ \A t \in Tasks : task[t].pc \in {"idle", "wrote"}
    /\ resp.status \in {0, 200, 204, 500}

\* Task t ran a statement in this step.
StepBy(t) ==
    /\ lastStmt'.by = t
    /\ <<lastStmt, db, task, resp>>' # <<lastStmt, db, task, resp>>

\* Task t's handler returned in this step; resp' is what it returned.
Returned(t) == StepBy(t) /\ task'[t].pc = "idle"

\* The first statement of a POST (PUT) of t succeeded in this step.
PostWrote(t) ==
    StepBy(t) /\ task[t].pc = "idle" /\ task'[t].pc = "wrote" /\ task'[t].kind = "POST"
PutWrote(t) ==
    StepBy(t) /\ task[t].pc = "idle" /\ task'[t].pc = "wrote" /\ task'[t].kind = "PUT"

\* The listing that follows t's write succeeded (failed) in this step.
ListedOk(t) == StepBy(t) /\ task[t].pc = "wrote" /\ lastStmt'.err = ""
ListedErr(t) == StepBy(t) /\ task[t].pc = "wrote" /\ lastStmt'.err # ""

\* A GET (DELETE) of t succeeded in this step.
GetOk(t) ==
    Returned(t) /\ task[t].pc = "idle" /\ lastStmt'.sql = SELECT_SQL /\ lastStmt'.err = ""
DeleteOk(t) ==
    Returned(t) /\ task[t].pc = "idle" /\ lastStmt'.sql = DELETE_SQL /\ lastStmt'.err = ""

\* No statement ran on the connection since t's write.
Undisturbed(t) == lastStmt.by = t

\* users is the content of rows, every user with its id present.
Lists(users, rows) ==
    /\ \A u \in users :
        /\ Len(u.id) = 1
        /\ [id |-> u.id[1], name |-> u.name, email |-> u.email] \in rows
    /\ \A r \in rows : [id |-> <<r.id>>, name |-> r.name, email |-> r.email] \in users

Row(id, b) == [id |-> id, name |-> b.name, email |-> b.email]

\* C1: a successful POST adds exactly one row, with the posted name and
\* email and an id no other row has (the id of the body plays no part) and
\* leaves the previous rows as they were; its response, when no other
\* statement came in between, is status 200 with a list that holds the new
\* user; a GET returns status 200 and exactly the rows of the store.
C1_PostThenGet ==
    [][\A t \in Tasks :
        /\ PostWrote(t) =>
            \E r \in db'.rows :
                /\ r.id \notin Ids(db.rows)
                /\ r.name = task'[t].body.name
                /\ r.email = task'[t].body.email
                /\ db'.rows = db.rows \cup {r}
                /\ Cardinality(db'.rows) = Cardinality(db.rows) + 1
        /\ (ListedOk(t) /\ task[t].kind = "POST" /\ Undisturbed(t)) =>
            /\ resp'.status = 200
            /\ Lists(resp'.users, db.rows)
            /\ \E u \in resp'.users :
                /\ u.name = task[t].body.name /\ u.email = task[t].body.email
                /\ \A v \in resp'.users : v.id = u.id => v = u
        /\ GetOk(t) =>
            /\ resp'.status = 200 /\ resp'.kind = "GET"
            /\ Lists(resp'.users, db.rows)
            /\ db' = db
    ]_vars

\* A GET answered with two users, the second one posted with the injection
\* name and a body id of 1, stored under id 2.
C1_Witness ==
    /\ resp.kind = "GET" /\ resp.status = 200
    /\ resp.users = { User(Some(1), "Ann", "ann@x.com"),
                      User(Some(2), InjectionName, "annb@x.com") }

\* C2: a successful PUT on the id of an existing row sets that row's name
\* and email to the body's, keeps its id (the id of the body is not used),
\* leaves every other row and the number of rows unchanged; its response,
\* when no other statement came in between, is status 200 with a list of
\* the store that holds the updated user.
C2_PutUpdatesRow ==
    [][\A t \in Tasks :
        /\ (PutWrote(t) /\ task'[t].id \in Ids(db.rows)) =>
            /\ db'.rows = { r \in db.rows : r.id # task'[t].id }
                            \cup { Row(task'[t].id, task'[t].body) }
            /\ Cardinality(db'.rows) = Cardinality(db.rows)
            /\ Ids(db'.rows) = Ids(db.rows)
            /\ db'.seq = db.seq
        /\ (ListedOk(t) /\ task[t].kind = "PUT" /\ Undisturbed(t)
                /\ task[t].id \in Ids(db.rows)) =>
            /\ resp'.status = 200
            /\ Lists(resp'.users, db.rows)
            /\ User(Some(task[t].id), task[t].body.name, task[t].body.email) \in resp'.users
    ]_vars

\* PUT /api/users/2 with a body whose id is 1 was answered: row 2 carries
\* the body's values and row 1 is as it was.
C2_Witness ==
    /\ resp.kind = "PUT" /\ resp.status = 200 /\ resp.id = 2
    /\ resp.users = { User(Some(1), "Ann", "ann@x.com"),
                      User(Some(2), InjectionName, "annb@x.com") }
    /\ lastStmt.by = resp.task
    /\ db.rows = { [id |-> 1, name |-> "Ann", email |-> "ann@x.com"],
                   [id |-> 2, name |-> InjectionName, email |-> "annb@x.com"] }

\* C3: a PUT or DELETE whose id matches no row succeeds silently: the store
\* is unchanged, the PUT answers 200 with the list of the unchanged store
\* and the DELETE answers 204; neither answers 500 or 404.
C3_NoMatchIsSilent ==
    [][\A t \in Tasks :
        /\ (PutWrote(t) /\ task'[t].id \notin Ids(db.rows)) =>
            /\ db' = db
            /\ resp' = resp
        /\ (ListedOk(t) /\ task[t].kind = "PUT" /\ Undisturbed(t)
                /\ task[t].id \notin Ids(db.rows)) =>
            /\ resp'.status = 200 /\ resp'.text = ""
            /\ Lists(resp'.users, db.rows)
            /\ db' = db
        /\ (lastStmt'.sql = DELETE_SQL /\ lastStmt'.err = "" /\ StepBy(t)
                /\ resp'.id \notin Ids(db.rows)) =>
            /\ resp'.task = t /\ resp'.kind = "DELETE"
            /\ resp'.status = 204 /\ resp'.text = "" /\ resp'.users = {}
            /\ db' = db
    ]_vars

\* A DELETE of an id that names no row of a store with a row was answered 204.
C3_Witness ==
    /\ resp.kind = "DELETE" /\ resp.status = 204
    /\ lastStmt = [sql |-> DELETE_SQL, err |-> "", by |-> resp.task]
    /\ resp.id \notin Ids(db.rows)
    /\ resp.id > db.seq
    /\ db.rows # {}

\* A PUT of an id that names no row was answered 200 with the store's list.
C3_WitnessPut ==
    /\ resp.kind = "PUT" /\ resp.status = 200
    /\ lastStmt = [sql |-> SELECT_SQL, err |-> "", by |-> resp.task]
    /\ resp.id \notin Ids(db.rows)
    /\ resp.users # {}

\* C4: a successful DELETE on the id of an existing row removes that row and
\* no other; it answers 204 with an empty body, its only statement being the
\* DELETE; the GET that follows lists no user with that id.
C4_DeleteRemovesRow ==
    [][\A t \in Tasks :
        /\ (lastStmt'.sql = DELETE_SQL /\ lastStmt'.err = "" /\ StepBy(t)
                /\ resp'.id \in Ids(db.rows)) =>
            /\ db'.rows = { r \in db.rows : r.id # resp'.id }
            /\ Cardinality(db'.rows) = Cardinality(db.rows) - 1
            /\ db'.seq = db.seq
            /\ resp'.task = t /\ resp'.kind = "DELETE"
            /\ resp'.status = 204 /\ resp'.users = {} /\ resp'.text = ""
            /\ task' = task
        /\ (GetOk(t) /\ resp.kind = "DELETE" /\ resp.status = 204
                /\ lastStmt = [sql |-> DELETE_SQL, err |-> "", by |-> resp.task]) =>
            \A u \in resp'.users : u.id # Some(resp.id)
    ]_vars

\* Row 1 of two rows was deleted and row 2 is still there.
C4_Witness ==
    /\ resp.kind = "DELETE" /\ resp.status = 204 /\ resp.id = 1
    /\ lastStmt = [sql |-> DELETE_SQL, err |-> "", by |-> resp.task]
    /\ Ids(db.rows) = {2}

\* C5: on every route a statement that fails makes the handler return 500
\* with the driver's error text, never 200 or 204; the handler is over, the
\* store, the server and the client are as they were; a handler whose
\* statements all succeed returns 200 (204 for DELETE), also after a 500.
C5_StoreErrorIs500 ==
    [][\A t \in Tasks :
        (StepBy(t) /\ phase = "serving") =>
            /\ lastStmt'.err # "" =>
                /\ resp'.task = t
                /\ resp'.status = 500
                /\ resp'.text = lastStmt'.err
                /\ resp'.users = {}
                /\ task'[t] = Idle
                /\ phase' = "serving" /\ client' = client /\ connAlive' = connAlive
            /\ (lastStmt'.err = "" /\ task'[t].pc = "idle") =>
                /\ resp'.task = t
                /\ resp'.status = IF resp'.kind = "DELETE" THEN 204 ELSE 200
                /\ resp'.text = ""
            /\ (lastStmt'.err = "" /\ task'[t].pc = "wrote") => resp' = resp
    ]_vars

\* After a 500 to one task, a statement of the other task succeeded on the
\* same connection.
C5_Witness ==
    /\ resp.status = 500 /\ resp.text = DbErrorText
    /\ lastStmt.by \in Tasks /\ lastStmt.by # resp.task
    /\ lastStmt.err = ""
    /\ task[lastStmt.by].pc = "wrote"

\* C6: requests are served only after connect and then CREATE TABLE have
\* both succeeded; a failure of either aborts the process before the routes
\* are mounted; once serving, the process serves until it is terminated
\* from outside.
C6_StartupOrder ==
    /\ [](/\ phase = "serving" => (client /\ db.exists)
          /\ (resp # NoResp \/ lastStmt.by \in Tasks \/ \E t \in Tasks : task[t] # Idle)
                => phase = "serving"
          /\ phase \in {"created", "serving"} => lastStmt.err = "" \/ lastStmt.by \in Tasks)
    /\ [][/\ (phase' = "serving" /\ phase # "serving") =>
                /\ phase = "created"
                /\ client /\ db.exists
                /\ lastStmt = [sql |-> CREATE_SQL, err |-> "", by |-> 0]
          /\ (phase' = "created" /\ phase # "created") =>
                /\ phase = "connected" /\ client
                /\ lastStmt' = [sql |-> CREATE_SQL, err |-> "", by |-> 0]
                /\ db'.exists
          /\ (phase = "connected" /\ lastStmt'.err # "") => phase' = "aborted"
          /\ (phase = "start" /\ ~client') => phase' = "aborted"
          /\ phase = "aborted" => phase' \in {"aborted", "start"}
          /\ (phase = "serving" /\ phase' # "serving") => phase' = "stopped"
         ]_vars

\* The process serves and has answered a request.
C6_Witness ==
    /\ phase = "serving" /\ resp.status = 200 /\ resp.users # {}

\* The process aborted on a failed CREATE TABLE.
C6_WitnessAbort ==
    /\ phase = "aborted" /\ lastStmt.sql = CREATE_SQL /\ lastStmt.err # ""

\* C7: no two rows share an id; the ids handed out grow strictly, so the id
\* of a deleted row is never used again; no request changes the id of a
\* row; every user of every response list has its id.
C7_IdsUniqueMonotonic ==
    /\ [](/\ \A r1, r2 \in db.rows : r1.id = r2.id => r1 = r2
          /\ \A r \in db.rows : r.id \in 1..db.seq
          /\ \A u \in resp.users : Len(u.id) = 1)
    /\ [][db.exists =>
            /\ db'.seq >= db.seq
            /\ \A r \in db'.rows : r.id \in Ids(db.rows) \/ r.id > db.seq
            /\ \A t \in Tasks : PutWrote(t) => Ids(db'.rows) = Ids(db.rows)
         ]_vars

\* Row 1 was deleted and the next insert got id 2, not 1.
C7_Witness ==
    /\ Ids(db.rows) = {2}
    /\ db.seq = 2
    /\ \E t \in Tasks : task[t].pc = "wrote" /\ task[t].kind = "POST" /\ task[t].id = 2
                        /\ lastStmt.by = t

\* C8: the values of a request are bound parameters: whatever the name and
\* email, the injection name included, the row stores them as they are, the
\* table stays in place, and the connection runs none but the program's
\* CREATE, INSERT, UPDATE, DELETE and SELECT statements.
C8_ParametersAreData ==
    /\ phase \in {"created", "serving"} => db.exists
    /\ lastStmt.sql \in {"", CREATE_SQL, INSERT_SQL, UPDATE_SQL, DELETE_SQL, SELECT_SQL}
    /\ \A r \in db.rows : \E b \in Bodies : r.name = b.name /\ r.email = b.email
    /\ \A t \in Tasks :
        (task[t].pc = "wrote" /\ lastStmt.by = t
            /\ (task[t].kind = "POST" \/ task[t].id \in Ids(db.rows))) =>
                Row(task[t].id, task[t].body) \in db.rows

\* The injection name was posted and is the name of a row; a PUT then wrote
\* it into a second row.
C8_Witness ==
    /\ db.exists /\ phase = "serving"
    /\ Cardinality(db.rows) = 2
    /\ \A r \in db.rows : r.name = InjectionName
    /\ lastStmt = [sql |-> UPDATE_SQL, err |-> "", by |-> lastStmt.by]

\* C9: the write and the listing of a POST or PUT are two statements
\* committed apart: the step that commits the write sends no response, the
\* step that sends the 200 leaves the store alone and lists what the store
\* holds then, whatever other requests did in between; a POST response
\* that lacks the row the POST inserted is one where that row is gone from
\* the store.
C9_WriteThenListNotAtomic ==
    /\ []((resp.kind = "POST" /\ resp.status = 200
            /\ \A u \in resp.users : u.id # Some(resp.id))
                => resp.id \notin Ids(db.rows))
    /\ [][\A t \in Tasks :
            /\ (StepBy(t) /\ db'.rows # db.rows /\ Ids(db.rows) \subseteq Ids(db'.rows)) =>
                /\ resp' = resp
                /\ task[t].pc = "idle" /\ task'[t].pc = "wrote"
            /\ (Returned(t) /\ resp'.kind \in {"POST", "PUT"} /\ resp'.status = 200) =>
                /\ task[t].pc = "wrote"
                /\ db' = db
                /\ Lists(resp'.users, db.rows)
         ]_vars

\* A POST was answered 200 with a list that lacks the row it inserted.
C9_Witness ==
    /\ resp.kind = "POST" /\ resp.status = 200 /\ resp.id > 0
    /\ \A u \in resp.users : u.id # Some(resp.id)

\* A PUT of an existing row was answered 200 with a list that lacks it.
C9_WitnessPut ==
    /\ resp.kind = "PUT" /\ resp.status = 200 /\ resp.id \in 1..db.seq
    /\ \A u \in resp.users : u.id # Some(resp.id)

\* C10: when the write of a POST or PUT succeeded and the listing fails,
\* the response is 500 and nothing is rolled back: the store is as the
\* write left it, and the GET that follows lists the written row.
C10_NoRollback ==
    [][\A t \in Tasks :
        /\ ListedErr(t) =>
            /\ resp'.task = t /\ resp'.status = 500 /\ resp'.kind = task[t].kind
            /\ db' = db
            /\ (Undisturbed(t) /\ (task[t].kind = "POST" \/ task[t].id \in Ids(db.rows))) =>
                    Row(task[t].id, task[t].body) \in db'.rows
        /\ (GetOk(t) /\ resp.status = 500 /\ resp.kind \in {"POST", "PUT"}
                /\ lastStmt = [sql |-> SELECT_SQL, err |-> resp.text, by |-> resp.task]
                /\ resp.id \in Ids(db.rows)) =>
            \E u \in resp'.users : u.id = Some(resp.id)
    ]_vars

\* A POST was answered 500 by its listing and the row it inserted is in
\* the store.
C10_Witness ==
    /\ resp.kind = "POST" /\ resp.status = 500
    /\ lastStmt = [sql |-> SELECT_SQL, err |-> resp.text, by |-> resp.task]
    /\ resp.id \in Ids(db.rows)
====
